---- MODULE Spec2Model ----
(***************************************************************************)
(* Treasury ledger of soros-backend (services/treasury.service.ts and the  *)
(* Treasury / Transaction schemas of db/schema.ts).                        *)
(*                                                                         *)
(* Every treasury operation runs in a MongoDB session transaction.  The    *)
(* handlers are split at their awaits that touch the store: the snapshot   *)
(* read (findOne), the implicit Treasury.create of a first deposit, the    *)
(* treasury.save, the Transaction.create, the commit and the abort.  The   *)
(* code between two awaits runs without interleaving and is part of the    *)
(* action that ends at the next await.                                     *)
(*                                                                         *)
(* The store gives snapshot isolation with first-writer-wins: a write in a *)
(* transaction fails with WriteConflict when the document carries an       *)
(* uncommitted write of another transaction or was committed after the     *)
(* writer's snapshot.  Nothing a transaction writes is visible before its  *)
(* commit; an abort discards it.                                           *)
(***************************************************************************)
EXTENDS Integers, Sequences, FiniteSets, TLC

\* ---------------------------------------------------------------- bounds
\* Transaction Records committed plus calls in flight.
MaxTransactions == 3

\* ---------------------------------------------------------------- inputs
PROCS == {"p1", "p2"}
STRATS == {"s1", "s2"}
USERS == {"u1", "u2"}
Amounts == {0 - 1, 0, 1}
NoHash == "undefined"
GoodHash == "0xaa"
BadHash == "nothex"
TxHashes == {NoHash, GoodHash, BadHash}
GoodAddress == "0x12"
BadAddress == "notaddr"
ContractAddresses == {GoodAddress, BadAddress}
Descriptions == {"", "d"}

TransactionType == {"DEPOSIT", "WITHDRAW", "TRADE_OPEN", "TRADE_CLOSE",
                    "PROFIT", "LOSS", "REFUND", "ADJUSTMENT"}

\* The Strategy collection (strategy CRUD is outside the ledger): strategy
\* s1 exists and belongs to u1; no strategy document has the id s2.
StrategyExists(s, u) == s = "s1" /\ u = "u1"

VARIABLES treasuries, transactions, pc, op, stale

vars == <<treasuries, transactions, pc, op, stale>>

NoDoc == [_id |-> 0]
NoOp == [fn |-> "none"]

Abs(x) == IF x < 0 THEN 0 - x ELSE x

\* ------------------------------------------------------- schema validators
ValidTxHash(h) == h = GoodHash
ValidAddress(c) == c = GoodAddress

ValidTreasuryNoMin(d) ==
    /\ ValidAddress(d.contractAddress)
    /\ (d.lastDepositTxHash # NoHash => ValidTxHash(d.lastDepositTxHash))
    /\ (d.lastWithdrawTxHash # NoHash => ValidTxHash(d.lastWithdrawTxHash))

\* treasurySchema: min 0 on the six balances, format of the hashes and of
\* the contract address (an unset optional path is not validated).
ValidTreasury(d) ==
    /\ d.totalDeposited >= 0
    /\ d.totalWithdrawn >= 0
    /\ d.availableBalance >= 0
    /\ d.lockedBalance >= 0
    /\ d.totalProfits >= 0
    /\ d.totalLosses >= 0
    /\ ValidAddress(d.contractAddress)
    /\ (d.lastDepositTxHash # NoHash => ValidTxHash(d.lastDepositTxHash))
    /\ (d.lastWithdrawTxHash # NoHash => ValidTxHash(d.lastWithdrawTxHash))

\* transactionSchema: amount non-zero, snapshots min 0, txHash format,
\* description required (an empty string fails required).
ValidTransaction(t, txHash, description) ==
    /\ t.type \in TransactionType
    /\ t.amount # 0
    /\ t.balanceBefore >= 0
    /\ t.balanceAfter >= 0
    /\ (txHash # NoHash => ValidTxHash(txHash))
    /\ description # ""

\* --------------------------------------------------------------- the store
NewTreasuryLocked(id, s, u, c) ==
    [_id |-> id, strategyId |-> s, userId |-> u,
     totalDeposited |-> 0, totalWithdrawn |-> 0,
     availableBalance |-> 0, lockedBalance |-> 1,
     totalProfits |-> 0, totalLosses |-> 0, netProfitLoss |-> 0,
     contractAddress |-> c,
     lastDepositTxHash |-> NoHash, lastWithdrawTxHash |-> NoHash]

\* Treasury.create: the document a first deposit or initialize inserts.
NewTreasury(id, s, u, c) ==
    [_id |-> id, strategyId |-> s, userId |-> u,
     totalDeposited |-> 0, totalWithdrawn |-> 0,
     availableBalance |-> 0, lockedBalance |-> 0,
     totalProfits |-> 0, totalLosses |-> 0, netProfitLoss |-> 0,
     contractAddress |-> c,
     lastDepositTxHash |-> NoHash, lastWithdrawTxHash |-> NoHash]

\* _id of the next committed Treasury document (ObjectIds are unique; a
\* document gets its number when it becomes visible).
NextId == Cardinality(treasuries) + 1

\* Treasury.findOne(filter) on the committed collection: a matching
\* document, or NoDoc (null) when none matches.
FindByStrategy(s) ==
    LET m == {d \in treasuries : d.strategyId = s}
    IN  IF m = {} THEN {NoDoc} ELSE m

FindByStrategyAndUser(s, u) ==
    LET m == {d \in treasuries : d.strategyId = s /\ d.userId = u}
    IN  IF m = {} THEN {NoDoc} ELSE m

InTxn(p) == pc[p] \in {"create", "save", "insert", "commit", "abort"}

\* Uncommitted writes another transaction holds.
HoldsDoc(q, id) == InTxn(q) /\ op[q].wrote /\ op[q].doc._id = id
HoldsKey(q, s) == InTxn(q) /\ op[q].created /\ op[q].strategyId = s

SaveNeverConflicts(p) == FALSE

\* treasury.save({ session }): the update of p's document conflicts.  A
\* document p inserted in this transaction is visible to p alone.
SaveConflict(p) ==
    /\ ~op[p].created
    /\ \/ p \in stale
       \/ \E q \in PROCS \ {p} : HoldsDoc(q, op[p].doc._id)

UniqueIndexMissing(s) == FALSE

\* unique index on strategyId (treasurySchema.index, unique: true)
UniqueIndexHit(s) == \E d \in treasuries : d.strategyId = s

\* Treasury.create([..], { session }): the insert of key s by p conflicts.
CreateConflict(p, s) ==
    \/ UniqueIndexHit(s)
    \/ \E q \in PROCS \ {p} : HoldsKey(q, s)

\* ------------------------------------------------------------ the handlers
\* catch (error): what is left of the call until abortTransaction runs.
Failed(o, e) ==
    [fn |-> o.fn, err |-> e, strategyId |-> o.strategyId,
     created |-> o.created, wrote |-> o.wrote, doc |-> [_id |-> o.doc._id]]

Goto(p, label, o) ==
    /\ pc' = [pc EXCEPT ![p] = label]
    /\ op' = [op EXCEPT ![p] = o]

Throw(p, o, e) == Goto(p, "abort", Failed(o, e))

DepositUpdateNoTotal(d, amount, txHash) ==
    [d EXCEPT !.availableBalance = @ + amount,
              !.lastDepositTxHash = txHash]

\* deposit, lines 159-164: the in-memory update of the document.
DepositUpdate(d, amount, txHash) ==
    [d EXCEPT !.totalDeposited = @ + amount,
              !.availableBalance = @ + amount,
              !.lastDepositTxHash = txHash]

\* deposit, lines 121-165 up to the first write.
Deposit(p, s, u, amount, txHash, c) ==
    /\ pc[p] = "idle"
    /\ LET o == [fn |-> "deposit", strategyId |-> s, userId |-> u,
                 type |-> "DEPOSIT", amount |-> amount, txHash |-> txHash,
                 description |-> "d", status |-> "COMPLETED",
                 contractAddress |-> "", doc |-> NoDoc, balanceBefore |-> 0,
                 created |-> FALSE, wrote |-> FALSE]
       IN  IF amount <= 0
           THEN Throw(p, o, "InvalidAmount")
           ELSE \E d \in FindByStrategy(s) :
                  IF d = NoDoc
                  THEN Goto(p, "create", [o EXCEPT !.contractAddress = c])
                  ELSE Goto(p, "save",
                            [o EXCEPT !.doc = DepositUpdate(d, amount, txHash),
                                      !.balanceBefore = d.availableBalance])
    /\ UNCHANGED <<treasuries, transactions, stale>>

\* deposit, lines 136-164: Treasury.create([..], { session }) of the first
\* deposit, then the in-memory update of the created document.
DepositCreate(p) ==
    /\ pc[p] = "create"
    /\ LET o == op[p]
           d == NewTreasury(0, o.strategyId, o.userId, o.contractAddress)
       IN  IF ~ValidTreasury(d)
           THEN Throw(p, o, "ValidationError")
           ELSE IF CreateConflict(p, o.strategyId)
           THEN Throw(p, o, "WriteConflict")
           ELSE Goto(p, "save",
                     [o EXCEPT !.created = TRUE, !.contractAddress = "",
                               !.doc = DepositUpdate(d, o.amount, o.txHash),
                               !.balanceBefore = d.availableBalance])
    /\ UNCHANGED <<treasuries, transactions, stale>>

WithdrawUpdateNoTotal(d, amount, txHash) ==
    [d EXCEPT !.availableBalance = @ - amount,
              !.lastWithdrawTxHash = IF txHash # NoHash THEN txHash ELSE @]

\* withdraw, lines 256-264
WithdrawUpdate(d, amount, txHash) ==
    [d EXCEPT !.totalWithdrawn = @ + amount,
              !.availableBalance = @ - amount,
              !.lastWithdrawTxHash = IF txHash # NoHash THEN txHash ELSE @]

WithdrawStatusSettled(txHash) == "COMPLETED"

\* withdraw, line 280: settled when the transfer's hash is known.
WithdrawStatus(txHash) ==
    IF txHash # NoHash THEN "COMPLETED" ELSE "PENDING"

WithdrawLookupFirst(p, s, u, amount, txHash) ==
    /\ pc[p] = "idle"
    /\ LET o == [fn |-> "withdraw", strategyId |-> s, userId |-> u,
                 type |-> "WITHDRAW", amount |-> 0 - amount, txHash |-> txHash,
                 description |-> "d",
                 status |-> WithdrawStatus(txHash),
                 contractAddress |-> "", doc |-> NoDoc, balanceBefore |-> 0,
                 created |-> FALSE, wrote |-> FALSE]
       IN  \E d \in FindByStrategyAndUser(s, u) :
              IF d = NoDoc
              THEN Throw(p, o, "NotFound")
              ELSE IF amount <= 0
              THEN Throw(p, o, "InvalidAmount")
              ELSE IF d.availableBalance < amount
              THEN Throw(p, o, "InsufficientFunds")
              ELSE Goto(p, "save",
                        [o EXCEPT !.doc = WithdrawUpdate(d, amount, txHash),
                                  !.balanceBefore = d.availableBalance])
    /\ UNCHANGED <<treasuries, transactions, stale>>

\* withdraw, lines 227-265 up to the write.
Withdraw(p, s, u, amount, txHash) ==
    /\ pc[p] = "idle"
    /\ LET o == [fn |-> "withdraw", strategyId |-> s, userId |-> u,
                 type |-> "WITHDRAW", amount |-> 0 - amount, txHash |-> txHash,
                 description |-> "d",
                 status |-> WithdrawStatus(txHash),
                 contractAddress |-> "", doc |-> NoDoc, balanceBefore |-> 0,
                 created |-> FALSE, wrote |-> FALSE]
       IN  IF amount <= 0
           THEN Throw(p, o, "InvalidAmount")
           ELSE \E d \in FindByStrategyAndUser(s, u) :
                  IF d = NoDoc
                  THEN Throw(p, o, "NotFound")
                  ELSE IF d.availableBalance < amount
                  THEN Throw(p, o, "InsufficientFunds")
                  ELSE Goto(p, "save",
                            [o EXCEPT !.doc = WithdrawUpdate(d, amount, txHash),
                                      !.balanceBefore = d.availableBalance])
    /\ UNCHANGED <<treasuries, transactions, stale>>

TradeOpenNoLock(d, amount) ==
    [d EXCEPT !.availableBalance = @ - Abs(amount)]

\* adjustBalance, lines 352-359: TRADE_OPEN locks the funds.
TradeOpen(d, amount) ==
    [d EXCEPT !.availableBalance = @ - Abs(amount),
              !.lockedBalance = @ + Abs(amount)]

TradeCloseClamped(d, amount) ==
    LET a == IF Abs(amount) > d.lockedBalance THEN d.lockedBalance
             ELSE Abs(amount)
    IN  [d EXCEPT !.lockedBalance = @ - a, !.availableBalance = @ + a]

TradeCloseNoCredit(d, amount) ==
    [d EXCEPT !.lockedBalance = @ - Abs(amount)]

\* adjustBalance, lines 361-365: TRADE_CLOSE unlocks them.
TradeClose(d, amount) ==
    [d EXCEPT !.lockedBalance = @ - Abs(amount),
              !.availableBalance = @ + Abs(amount)]

ProfitNoCredit(d, amount) ==
    [d EXCEPT !.totalProfits = @ + Abs(amount),
              !.netProfitLoss = (d.totalProfits + Abs(amount)) - d.totalLosses]

\* adjustBalance, lines 367-372
Profit(d, amount) ==
    [d EXCEPT !.totalProfits = @ + Abs(amount),
              !.availableBalance = @ + Abs(amount),
              !.netProfitLoss = (d.totalProfits + Abs(amount)) - d.totalLosses]

LossStaleNet(d, amount) ==
    [d EXCEPT !.totalLosses = @ + Abs(amount),
              !.availableBalance = @ - Abs(amount)]

\* adjustBalance, lines 374-379
Loss(d, amount) ==
    [d EXCEPT !.totalLosses = @ + Abs(amount),
              !.availableBalance = @ - Abs(amount),
              !.netProfitLoss = d.totalProfits - (d.totalLosses + Abs(amount))]

RefundAsProfit(d, amount) ==
    [d EXCEPT !.availableBalance = @ + Abs(amount),
              !.totalProfits = @ + Abs(amount)]

\* adjustBalance, lines 381-384
Refund(d, amount) ==
    [d EXCEPT !.availableBalance = @ + Abs(amount)]

AdjustmentAbs(d, amount) ==
    [d EXCEPT !.availableBalance = @ + Abs(amount)]

\* adjustBalance, lines 386-392: the signed manual adjustment.
Adjustment(d, amount) ==
    [d EXCEPT !.availableBalance = @ + amount]

\* adjustBalance, lines 351-396: the switch on the type.
AdjustUpdate(d, type, amount) ==
    CASE type = "TRADE_OPEN" -> TradeOpen(d, amount)
      [] type = "TRADE_CLOSE" -> TradeClose(d, amount)
      [] type = "PROFIT" -> Profit(d, amount)
      [] type = "LOSS" -> Loss(d, amount)
      [] type = "REFUND" -> Refund(d, amount)
      [] type = "ADJUSTMENT" -> Adjustment(d, amount)
      [] OTHER -> d

AdjustErrorLossFloor(d, type, amount) ==
    CASE type \in {"TRADE_OPEN", "LOSS"} /\ d.availableBalance < Abs(amount) ->
           "InsufficientFunds"
      [] type = "ADJUSTMENT" /\ d.availableBalance + amount < 0 ->
           "NegativeBalance"
      [] type \in {"DEPOSIT", "WITHDRAW"} -> "UnsupportedType"
      [] OTHER -> "none"

\* adjustBalance, lines 354-356, 389-391, 394-395: the throws of the switch.
AdjustError(d, type, amount) ==
    CASE type = "TRADE_OPEN" /\ d.availableBalance < Abs(amount) ->
           "InsufficientFunds"
      [] type = "ADJUSTMENT" /\ d.availableBalance + amount < 0 ->
           "NegativeBalance"
      [] type \in {"DEPOSIT", "WITHDRAW"} -> "UnsupportedType"
      [] OTHER -> "none"

\* adjustBalance, lines 323-398 up to the write.
AdjustBalance(p, s, u, amount, type, description, txHash) ==
    /\ pc[p] = "idle"
    /\ LET o == [fn |-> "adjustBalance", strategyId |-> s, userId |-> u,
                 type |-> type, amount |-> amount, txHash |-> txHash,
                 description |-> description, status |-> "COMPLETED",
                 contractAddress |-> "", doc |-> NoDoc, balanceBefore |-> 0,
                 created |-> FALSE, wrote |-> FALSE]
       IN  IF amount = 0
           THEN Throw(p, o, "InvalidAmount")
           ELSE \E d \in FindByStrategyAndUser(s, u) :
                  IF d = NoDoc
                  THEN Throw(p, o, "NotFound")
                  ELSE IF AdjustError(d, type, amount) # "none"
                  THEN Throw(p, o, AdjustError(d, type, amount))
                  ELSE Goto(p, "save",
                            [o EXCEPT !.doc = AdjustUpdate(d, type, amount),
                                      !.balanceBefore = d.availableBalance])
    /\ UNCHANGED <<treasuries, transactions, stale>>

\* The Treasury collection with p's document written: the inserted
\* document, or the saved document in place of the one with its _id.
CommittedTreasuries(o) ==
    IF o.created
    THEN treasuries \cup {[o.doc EXCEPT !._id = NextId]}
    ELSE {d \in treasuries : d._id # o.doc._id} \cup {o.doc}

AfterSaveNoSession(o) == CommittedTreasuries(o)

\* What the other sessions see of the collection once p's save is done: a
\* write made with { session } stays private to the transaction.
AfterSave(o) == treasuries

SaveWithoutSession(p) ==
    /\ pc[p] = "save"
    /\ LET o == op[p]
       IN  IF ~ValidTreasury(o.doc)
           THEN Throw(p, o, "ValidationError") /\ UNCHANGED treasuries
           ELSE IF SaveConflict(p)
           THEN Throw(p, o, "WriteConflict") /\ UNCHANGED treasuries
           ELSE /\ Goto(p, "insert", [o EXCEPT !.wrote = TRUE])
                /\ treasuries' = CommittedTreasuries(o)
    /\ UNCHANGED <<transactions, stale>>

\* await treasury.save({ session }): mongoose validates the document, then
\* the store takes the update into the transaction.
Save(p) ==
    /\ pc[p] = "save"
    /\ LET o == op[p]
       IN  IF ~ValidTreasury(o.doc)
           THEN Throw(p, o, "ValidationError") /\ UNCHANGED treasuries
           ELSE IF SaveConflict(p)
           THEN Throw(p, o, "WriteConflict") /\ UNCHANGED treasuries
           ELSE /\ Goto(p, "insert", [o EXCEPT !.wrote = TRUE])
                /\ treasuries' = AfterSave(o)
    /\ UNCHANGED <<transactions, stale>>

TransactionRecordLateBefore(o) ==
    [userId |-> o.userId, strategyId |-> o.strategyId,
     treasuryId |-> o.doc._id, type |-> o.type, amount |-> o.amount,
     balanceBefore |-> o.doc.availableBalance,
     balanceAfter |-> o.doc.availableBalance, status |-> o.status]

\* The Transaction Record the handler builds (lines 168-187, 268-284,
\* 401-419); balanceAfter is the document's availableBalance after the update.
TransactionRecord(o) ==
    [userId |-> o.userId, strategyId |-> o.strategyId,
     treasuryId |-> o.doc._id, type |-> o.type, amount |-> o.amount,
     balanceBefore |-> o.balanceBefore,
     balanceAfter |-> o.doc.availableBalance, status |-> o.status]

\* await Transaction.create([..], { session })
InsertTransaction(p) ==
    /\ pc[p] = "insert"
    /\ LET o == op[p]
       IN  IF ~ValidTransaction(TransactionRecord(o), o.txHash, o.description)
           THEN Throw(p, o, "ValidationError")
           ELSE Goto(p, "commit", o)
    /\ UNCHANGED <<treasuries, transactions, stale>>

OutdatedNone(p, s) == {}

OutdatedAnyStrategy(p, s) ==
    {q \in PROCS \ {p} : InTxn(q)}

\* The processes whose snapshot a commit on strategy s outdates.
Outdated(p, s) ==
    {q \in PROCS \ {p} : InTxn(q) /\ op[q].strategyId = s}

CommitSettlesPending(p) ==
    /\ pc[p] = "commit"
    /\ LET o == op[p]
           id == IF o.created THEN NextId ELSE o.doc._id
           r == [TransactionRecord(o) EXCEPT !.treasuryId = id]
       IN  /\ treasuries' = CommittedTreasuries(o)
           /\ transactions' =
                Append([i \in 1..Len(transactions) |->
                          [transactions[i] EXCEPT !.status = "COMPLETED"]], r)
           /\ stale' = (stale \cup Outdated(p, o.strategyId)) \ {p}
    /\ Goto(p, "idle", NoOp)

CommitReplacesLast(p) ==
    /\ pc[p] = "commit"
    /\ LET o == op[p]
           id == IF o.created THEN NextId ELSE o.doc._id
           r == [TransactionRecord(o) EXCEPT !.treasuryId = id]
           n == Len(transactions)
       IN  /\ treasuries' = CommittedTreasuries(o)
           /\ transactions' =
                IF n > 0 /\ transactions[n].strategyId = o.strategyId
                THEN [transactions EXCEPT ![n] = r]
                ELSE Append(transactions, r)
           /\ stale' = (stale \cup Outdated(p, o.strategyId)) \ {p}
    /\ Goto(p, "idle", NoOp)

\* await session.commitTransaction(): both writes become visible at once.
Commit(p) ==
    /\ pc[p] = "commit"
    /\ LET o == op[p]
           id == IF o.created THEN NextId ELSE o.doc._id
       IN  /\ treasuries' = CommittedTreasuries(o)
           /\ transactions' =
                Append(transactions, [TransactionRecord(o) EXCEPT !.treasuryId = id])
           /\ stale' = (stale \cup Outdated(p, o.strategyId)) \ {p}
    /\ Goto(p, "idle", NoOp)

AbortRecordsFailure(p) ==
    /\ pc[p] = "abort"
    /\ stale' = stale \ {p}
    /\ Goto(p, "idle", NoOp)
    /\ transactions' = Append(transactions,
          [userId |-> "u1", strategyId |-> op[p].strategyId, treasuryId |-> 0,
           type |-> "ADJUSTMENT", amount |-> 0, balanceBefore |-> 0,
           balanceAfter |-> 0, status |-> "FAILED"])
    /\ UNCHANGED treasuries

\* await session.abortTransaction() and the rethrow: the transaction's
\* writes are discarded.
Abort(p) ==
    /\ pc[p] = "abort"
    /\ stale' = stale \ {p}
    /\ Goto(p, "idle", NoOp)
    /\ UNCHANGED <<treasuries, transactions>>

\* getTransactionSummary called without userId.
NoUser == "undefined"

\* getTransactionSummary, lines 549-557: the $match stage.
SummaryMatch(t, s, u) ==
    /\ t.strategyId = s
    /\ t.status = "COMPLETED"
    /\ (u # NoUser => t.userId = u)

\* getTransactionSummary, lines 559-568: the $group stage for one type,
\* total = $sum of amount and count = $sum of 1 over the matched records.
RECURSIVE SummaryGroup(_, _, _, _)
SummaryGroup(log, s, u, type) ==
    IF log = <<>> THEN [total |-> 0, count |-> 0]
    ELSE LET g == SummaryGroup(Tail(log), s, u, type)
         IN  IF SummaryMatch(Head(log), s, u) /\ Head(log).type = type
             THEN [total |-> g.total + Head(log).amount, count |-> g.count + 1]
             ELSE g

RECURSIVE SummaryCount(_, _, _)
SummaryCount(log, s, u) ==
    IF log = <<>> THEN 0
    ELSE (IF SummaryMatch(Head(log), s, u) THEN 1 ELSE 0)
         + SummaryCount(Tail(log), s, u)

\* getTransactionSummary, lines 570-596: the result built from the groups.
GetTransactionSummary(s, u) ==
    [totalDeposits |-> SummaryGroup(transactions, s, u, "DEPOSIT").total,
     totalWithdrawals |-> Abs(SummaryGroup(transactions, s, u, "WITHDRAW").total),
     totalProfits |-> SummaryGroup(transactions, s, u, "PROFIT").total,
     totalLosses |-> Abs(SummaryGroup(transactions, s, u, "LOSS").total),
     transactionCount |-> SummaryCount(transactions, s, u)]

\* getBalance, lines 459-470: Treasury.findOne(query), userId in the query
\* when given; NoDoc stands for the throw of "Treasury not found".
GetBalance(s, u) ==
    LET m == {d \in treasuries :
                d.strategyId = s /\ (u # NoUser => d.userId = u)}
    IN  IF m = {} THEN {NoDoc} ELSE m

\* validateSufficientBalance, lines 608-614
ValidateSufficientBalance(s, requiredAmount) ==
    \E d \in FindByStrategy(s) :
        d # NoDoc /\ d.availableBalance >= requiredAmount

\* getTransactionHistory, line 517: options?.limit || 50
DefaultLimit == 50

\* sort({ createdAt: -1 }): the latest record first.
RECURSIVE NewestFirst(_)
NewestFirst(log) ==
    IF log = <<>> THEN <<>> ELSE Append(NewestFirst(Tail(log)), Head(log))

\* getTransactionHistory, lines 503-530, called without options: the
\* strategy's records (of the user when given), latest first, at most
\* DefaultLimit of them, and their number.
GetTransactionHistory(s, u) ==
    LET m == SelectSeq(transactions,
                       LAMBDA r : r.strategyId = s /\ (u # NoUser => r.userId = u))
        n == IF Len(m) < DefaultLimit THEN Len(m) ELSE DefaultLimit
    IN  [transactions |-> SubSeq(NewestFirst(m), 1, n), total |-> Len(m)]

InitializeTreasuryNoLookup(p, s, u, c) ==
    /\ pc[p] = "idle"
    /\ IF ~StrategyExists(s, u)
       THEN Goto(p, "initDone", [fn |-> "initializeTreasury",
                                 err |-> "OwnershipMismatch",
                                 strategyId |-> s, userId |-> u,
                                 ret |-> NoDoc])
       ELSE Goto(p, "initCreate", [fn |-> "initializeTreasury",
                                   strategyId |-> s, userId |-> u,
                                   contractAddress |-> c])
    /\ UNCHANGED <<treasuries, transactions, stale>>

\* initializeTreasury, lines 64-82: the two reads.
InitializeTreasury(p, s, u, c) ==
    /\ pc[p] = "idle"
    /\ \E d \in FindByStrategy(s) :
         IF d # NoDoc
         THEN Goto(p, "initDone", [fn |-> "initializeTreasury", err |-> "none",
                                   strategyId |-> s, ret |-> d])
         ELSE IF ~StrategyExists(s, u)
         THEN Goto(p, "initDone", [fn |-> "initializeTreasury",
                                   err |-> "OwnershipMismatch",
                                   strategyId |-> s, userId |-> u,
                                   ret |-> NoDoc])
         ELSE Goto(p, "initCreate", [fn |-> "initializeTreasury",
                                     strategyId |-> s, userId |-> u,
                                     contractAddress |-> c])
    /\ UNCHANGED <<treasuries, transactions, stale>>

\* initializeTreasury, lines 85-96: Treasury.create outside any transaction.
\* The insert waits while a transaction holds the index key uncommitted.
InitializeCreate(p) ==
    /\ pc[p] = "initCreate"
    /\ LET o == op[p]
           d == NewTreasury(NextId, o.strategyId, o.userId, o.contractAddress)
           r == [fn |-> "initializeTreasury", err |-> "none",
                 strategyId |-> o.strategyId, ret |-> NoDoc]
       IN  /\ ~(\E q \in PROCS \ {p} : HoldsKey(q, o.strategyId))
           /\ IF ~ValidTreasury(d)
              THEN /\ Goto(p, "initDone", [r EXCEPT !.err = "ValidationError"])
                   /\ UNCHANGED <<treasuries, stale>>
              ELSE IF UniqueIndexHit(o.strategyId)
              THEN /\ Goto(p, "initDone", [r EXCEPT !.err = "DuplicateKey"])
                   /\ UNCHANGED <<treasuries, stale>>
              ELSE /\ Goto(p, "initDone", [r EXCEPT !.ret = d])
                   /\ treasuries' = treasuries \cup {d}
                   /\ stale' = stale \cup Outdated(p, o.strategyId)
    /\ UNCHANGED transactions

\* initializeTreasury returns the document or throws.
InitializeReturn(p) ==
    /\ pc[p] = "initDone"
    /\ Goto(p, "idle", NoOp)
    /\ UNCHANGED <<treasuries, transactions, stale>>

\* ------------------------------------------------------------ specification
Init ==
    /\ treasuries = {}
    /\ transactions = <<>>
    /\ pc = [p \in PROCS |-> "idle"]
    /\ op = [p \in PROCS |-> NoOp]
    /\ stale = {}

\* The calls in flight and the records committed stay within n.
Budget(n) ==
    Len(transactions) + Cardinality({q \in PROCS : InTxn(q)}) < n

\* One step of a process of in.procs, its call drawn from the input sets in.
Step(in) ==
    \E p \in in.procs :
        \/ \E s \in in.strategies, u \in in.users, c \in in.addresses :
             InitializeTreasury(p, s, u, c)
        \/ InitializeCreate(p)
        \/ InitializeReturn(p)
        \/ \E s \in in.strategies, u \in in.users, a \in in.amounts,
              h \in in.hashes \ {NoHash}, c \in in.addresses :
             Budget(in.depth) /\ Deposit(p, s, u, a, h, c)
        \/ DepositCreate(p)
        \/ \E s \in in.strategies, u \in in.users, a \in in.amounts,
              h \in in.hashes :
             Budget(in.depth) /\ Withdraw(p, s, u, a, h)
        \/ \E s \in in.strategies, u \in in.users, a \in in.amounts,
              t \in in.types, e \in in.descriptions, h \in in.adjustHashes :
             /\ Budget(in.depth)
             /\ (a < 0 => t \in in.signedTypes)
             /\ AdjustBalance(p, s, u, a, t, e, h)
        \/ Save(p)
        \/ InsertTransaction(p)
        \/ Commit(p)
        \/ Abort(p)

\* One caller at a time on one strategy: every kind and sign of amount,
\* well-formed and malformed hashes, addresses and descriptions, the owner
\* and another user.
SeqInputs ==
    [procs |-> {"p1"}, strategies |-> {"s1"}, users |-> USERS,
     amounts |-> Amounts, types |-> TransactionType,
     signedTypes |-> TransactionType,
     descriptions |-> Descriptions, hashes |-> TxHashes,
     adjustHashes |-> {NoHash, BadHash}, addresses |-> ContractAddresses,
     depth |-> MaxTransactions]

Next == Step(SeqInputs)

Spec == Init /\ [][Next]_vars

\* Concurrent calls of the owner on one strategy, with well-formed hashes,
\* addresses and descriptions; a negative amount for ADJUSTMENT alone.
ConcInputs ==
    [procs |-> PROCS, strategies |-> {"s1"}, users |-> {"u1"},
     amounts |-> Amounts \ {0},
     types |-> TransactionType \ {"DEPOSIT", "WITHDRAW"},
     signedTypes |-> {"ADJUSTMENT"},
     descriptions |-> {"d"}, hashes |-> {NoHash, GoodHash},
     adjustHashes |-> {NoHash}, addresses |-> {GoodAddress},
     depth |-> MaxTransactions]

NextConc == Step(ConcInputs)

SpecConc == Init /\ [][NextConc]_vars

\* Concurrent initialize calls and funding on two strategies, by the owner
\* and by another user, with well-formed and malformed contract addresses;
\* "s2" is a strategy the Strategy collection does not hold.
InitInputs ==
    [procs |-> PROCS, strategies |-> STRATS, users |-> USERS,
     amounts |-> {1}, types |-> {"TRADE_OPEN"}, signedTypes |-> {},
     descriptions |-> {"d"}, hashes |-> {GoodHash},
     adjustHashes |-> {NoHash}, addresses |-> ContractAddresses,
     depth |-> MaxTransactions]

NextInit == Step(InitInputs)

SpecInit == Init /\ [][NextInit]_vars

\* ------------------------------------------------------------------ claims
DocsOf(T, s) == {d \in T : d.strategyId = s}
AvailableOf(T, s) ==
    IF DocsOf(T, s) = {} THEN 0 ELSE (CHOOSE d \in DocsOf(T, s) : TRUE).availableBalance

Commits(p) == pc[p] = "commit" /\ pc'[p] = "idle"

\* C1: in every committed state every Balance Record has
\* availableBalance >= 0 and lockedBalance >= 0.
C1_NonNegativeBalances ==
    \A d \in treasuries : d.availableBalance >= 0 /\ d.lockedBalance >= 0

\* A LOSS, TRADE_CLOSE or other update that would leave a negative balance
\* was refused by the schema at save, before any write.
C1_Witness ==
    \E p \in PROCS :
        /\ pc[p] = "abort"
        /\ op[p].fn = "adjustBalance"
        /\ op[p].err = "ValidationError"
        /\ ~op[p].wrote
        /\ treasuries # {}

\* C2 (as claimed): deposits run in parallel on one strategy all succeed,
\* none is aborted by the write of another deposit in flight.
C2_ParallelDepositsAllSucceed ==
    ~ \E p \in PROCS, q \in PROCS :
        /\ p # q
        /\ pc[p] = "abort" /\ op[p].fn = "deposit" /\ op[p].err = "WriteConflict"
        /\ InTxn(q) /\ op[q].fn = "deposit" /\ (op[q].wrote \/ op[q].created)

\* What a call does to the Balance Record it finds when it runs alone.
SequentialDoc(o, base) ==
    CASE o.fn = "deposit" -> DepositUpdate(base, o.amount, o.txHash)
      [] o.fn = "withdraw" -> WithdrawUpdate(base, 0 - o.amount, o.txHash)
      [] OTHER -> AdjustUpdate(base, o.type, o.amount)

SequentialAllowed(o, cur) ==
    CASE o.fn = "deposit" -> TRUE
      [] o.fn = "withdraw" ->
           /\ cur # {}
           /\ \A d \in cur : d.userId = o.userId /\ d.availableBalance >= 0 - o.amount
      [] OTHER ->
           /\ cur # {}
           /\ \A d \in cur : d.userId = o.userId
                             /\ AdjustError(d, o.type, o.amount) = "none"

\* C3: every commit equals the call applied, alone, to the Balance Record
\* committed just before it -- the committed calls are applied one at a
\* time in commit order; a debit never commits against a balance it did
\* not read.
C3_Linearizable ==
    [][\A p \in PROCS : Commits(p) =>
         LET o == op[p]
             cur == DocsOf(treasuries, o.strategyId)
             base == IF cur = {}
                     THEN NewTreasury(NextId, o.strategyId, o.userId,
                                      o.doc.contractAddress)
                     ELSE CHOOSE d \in cur : TRUE
             exp == SequentialDoc(o, base)
         IN  /\ Cardinality(cur) <= 1
             /\ SequentialAllowed(o, cur)
             /\ exp.availableBalance >= 0
             /\ treasuries' = (treasuries \ cur) \cup {exp}
             /\ transactions' = Append(transactions,
                  [userId |-> o.userId, strategyId |-> o.strategyId,
                   treasuryId |-> base._id, type |-> o.type,
                   amount |-> o.amount,
                   balanceBefore |-> base.availableBalance,
                   balanceAfter |-> exp.availableBalance,
                   status |-> o.status])]_vars

\* Two withdrawals read the same balance; one committed and emptied it, the
\* other was aborted.
C3_Witness ==
    \E p \in PROCS :
        /\ pc[p] = "abort"
        /\ op[p].fn = "withdraw"
        /\ op[p].err = "WriteConflict"
        /\ Len(transactions) >= 2
        /\ transactions[Len(transactions)].type = "WITHDRAW"
        /\ AvailableOf(treasuries, "s1") = 0

\* C4: no step applies half an operation: a step changes the committed
\* ledger only by adding one Transaction Record together with the Balance
\* Record update it describes, or by the record creation of initialize; a
\* call that fails after its write leaves no trace.
C4_NoPartialApply ==
    [][/\ (\A p \in PROCS :
             pc'[p] # pc[p] /\ (pc'[p] = "abort" \/ pc[p] = "abort") =>
                UNCHANGED <<treasuries, transactions>>)
       /\ (treasuries' # treasuries /\ transactions' = transactions =>
             \E p \in PROCS :
                /\ pc[p] = "initCreate"
                /\ treasuries' = treasuries \cup
                     {NewTreasury(NextId, op[p].strategyId, op[p].userId,
                                  op[p].contractAddress)})
       /\ (transactions' # transactions =>
             /\ Len(transactions') = Len(transactions) + 1
             /\ SubSeq(transactions', 1, Len(transactions)) = transactions
             /\ LET r == transactions'[Len(transactions')]
                IN  \E d \in treasuries' \ treasuries :
                       /\ d._id = r.treasuryId
                       /\ d.strategyId = r.strategyId
                       /\ d.availableBalance = r.balanceAfter)]_vars

\* An adjustBalance whose Transaction Record insert was rejected after its
\* Balance Record was saved.
C4_Witness ==
    \E p \in PROCS :
        /\ pc[p] = "abort"
        /\ op[p].fn = "adjustBalance"
        /\ op[p].wrote
        /\ op[p].err = "ValidationError"

\* C5: every successful deposit, withdraw and adjustBalance appends exactly
\* one Transaction Record, whose balanceBefore / balanceAfter are the
\* availableBalance of the Balance Record just before / just after.
C5_OneRecordWithSnapshots ==
    [][/\ (\A p \in PROCS : Commits(p) =>
             Len(transactions') = Len(transactions) + 1)
       /\ (transactions' # transactions =>
             /\ Len(transactions') = Len(transactions) + 1
             /\ SubSeq(transactions', 1, Len(transactions)) = transactions
             /\ LET r == transactions'[Len(transactions')]
                IN  /\ r.balanceBefore = AvailableOf(treasuries, r.strategyId)
                    /\ r.balanceAfter = AvailableOf(treasuries', r.strategyId))]_vars

C5_Witness ==
    /\ Len(transactions) >= 2
    /\ transactions[1].type = "DEPOSIT"
    /\ transactions[2].type = "TRADE_OPEN"
    /\ transactions[2].balanceBefore # transactions[2].balanceAfter

Rejections == {"InvalidAmount", "NotFound", "InsufficientFunds", "NegativeBalance"}

\* C6: a call rejected with InvalidAmount, NotFound, InsufficientFunds or
\* NegativeBalance leaves every Balance Record as it was and adds no
\* Transaction Record, from the call to the rethrow.
C6_RejectionChangesNothing ==
    [][\A p \in PROCS :
         \/ (pc[p] = "idle" /\ pc'[p] = "abort" /\ op'[p].err \in Rejections)
         \/ (pc[p] = "abort" /\ pc'[p] = "idle" /\ op[p].err \in Rejections)
         => UNCHANGED <<treasuries, transactions>>]_vars

\* deposit 1 and TRADE_OPEN 1, then withdraw 1 is rejected: nothing is
\* available, the deposit is still locked and the log still has two records.
C6_Witness ==
    \E p \in PROCS :
        /\ pc[p] = "abort"
        /\ op[p].fn = "withdraw"
        /\ op[p].err = "InsufficientFunds"
        /\ Len(transactions) = 2
        /\ \E d \in treasuries : d.availableBalance = 0 /\ d.lockedBalance = 1

\* C7: a withdraw commits only with amount <= availableBalance, and it
\* lowers availableBalance and raises totalWithdrawn by exactly the amount.
C7_WithdrawExact ==
    [][\A p \in PROCS : Commits(p) /\ op[p].fn = "withdraw" =>
         LET a == 0 - op[p].amount
             s == op[p].strategyId
         IN  /\ DocsOf(treasuries, s) # {}
             /\ \A d \in DocsOf(treasuries, s) :
                  /\ a <= d.availableBalance
                  /\ \E e \in DocsOf(treasuries', s) :
                       /\ e.availableBalance = d.availableBalance - a
                       /\ e.totalWithdrawn = d.totalWithdrawn + a]_vars

C7_Witness ==
    \E i \in 1..Len(transactions) :
        /\ transactions[i].type = "WITHDRAW"
        /\ transactions[i].balanceAfter > 0
        /\ \E d \in treasuries : d.totalWithdrawn > 0

RECURSIVE SumAmounts(_, _, _)
SumAmounts(log, s, type) ==
    IF log = <<>> THEN 0
    ELSE (IF Head(log).strategyId = s /\ Head(log).type = type
          THEN Head(log).amount ELSE 0) + SumAmounts(Tail(log), s, type)

OnlyDeposits(s) ==
    \A i \in 1..Len(transactions) :
        transactions[i].strategyId = s => transactions[i].type = "DEPOSIT"

\* C8: totalDeposited is the sum of the amounts deposited, and while only
\* deposits were made availableBalance is that sum too; the first deposit
\* creates the record it then updates.
C8_DepositsAddUp ==
    /\ \A d \in treasuries :
         /\ d.totalDeposited = SumAmounts(transactions, d.strategyId, "DEPOSIT")
         /\ (OnlyDeposits(d.strategyId) => d.availableBalance = d.totalDeposited)
    /\ \A i \in 1..Len(transactions) :
         transactions[i].type = "DEPOSIT" =>
            /\ transactions[i].balanceAfter =
                 transactions[i].balanceBefore + transactions[i].amount
            /\ DocsOf(treasuries, transactions[i].strategyId) # {}

\* Three deposits, the first of which created the record.
C8_Witness ==
    /\ Len(transactions) = 3
    /\ OnlyDeposits("s1")
    /\ transactions[1].treasuryId = 1
    /\ \E d \in treasuries : d.totalDeposited = 3

\* C9: every Balance Record has netProfitLoss = totalProfits - totalLosses.
C9_NetProfitLoss ==
    \A d \in treasuries : d.netProfitLoss = d.totalProfits - d.totalLosses

C9_Witness ==
    \E d \in treasuries : d.totalProfits > 0 /\ d.totalLosses > 0

\* C10: on every Balance Record and for every amount 0 < a <=
\* availableBalance, TRADE_OPEN a succeeds and TRADE_CLOSE a after it
\* succeeds and gives back the availableBalance and lockedBalance from
\* before the TRADE_OPEN; in the log, a TRADE_CLOSE right after a TRADE_OPEN
\* of the same amount ends on the balance the TRADE_OPEN started from.
C10_OpenCloseRoundTrip ==
    /\ \A d \in treasuries : \A a \in Amounts :
         0 < a /\ a <= d.availableBalance =>
            LET opened == AdjustUpdate(d, "TRADE_OPEN", a)
                closed == AdjustUpdate(opened, "TRADE_CLOSE", a)
            IN  /\ AdjustError(d, "TRADE_OPEN", a) = "none"
                /\ ValidTreasury(opened)
                /\ AdjustError(opened, "TRADE_CLOSE", a) = "none"
                /\ ValidTreasury(closed)
                /\ closed.availableBalance = d.availableBalance
                /\ closed.lockedBalance = d.lockedBalance
    /\ \A i \in 1..(Len(transactions) - 1) :
         /\ transactions[i].type = "TRADE_OPEN"
         /\ transactions[i + 1].type = "TRADE_CLOSE"
         /\ transactions[i + 1].strategyId = transactions[i].strategyId
         /\ Abs(transactions[i + 1].amount) = Abs(transactions[i].amount)
         => transactions[i + 1].balanceAfter = transactions[i].balanceBefore

C10_Witness ==
    /\ Len(transactions) = 3
    /\ transactions[2].type = "TRADE_OPEN"
    /\ transactions[3].type = "TRADE_CLOSE"
    /\ transactions[2].amount = transactions[3].amount
    /\ \E d \in treasuries : d.lockedBalance = 0 /\ d.availableBalance > 0

\* C11 (as claimed): no deposit, withdraw or adjustBalance called with
\* ownerId U changes a Balance Record whose ownerId is not U, nor appends a
\* Transaction Record to that record's strategy: every commit on a strategy
\* is made by the owner of the strategy's Balance Record.
C11_OwnerScopedWrites ==
    [][\A p \in PROCS : Commits(p) =>
         \A d \in DocsOf(treasuries, op[p].strategyId) :
            d.userId = op[p].userId]_vars

\* C12: initialize called for a strategy that already has a Balance Record
\* returns that very record without error, changes no Balance Record and
\* appends no Transaction Record, so a second initialize leaves the ledger
\* as the first one left it.
C12_InitializeIdempotent ==
    [][\A p \in PROCS, s \in STRATS :
         /\ pc[p] = "idle"
         /\ pc'[p] \in {"initDone", "initCreate"}
         /\ op'[p].strategyId = s
         /\ DocsOf(treasuries, s) # {}
         => /\ pc'[p] = "initDone"
            /\ op'[p].err = "none"
            /\ op'[p].ret \in DocsOf(treasuries, s)
            /\ UNCHANGED <<treasuries, transactions>>]_vars

\* initialize returned a record that deposits had already funded.
C12_Witness ==
    \E p \in PROCS :
        /\ pc[p] = "initDone"
        /\ op[p].err = "none"
        /\ op[p].ret \in treasuries
        /\ op[p].ret.totalDeposited > 0
        /\ Len(transactions) > 0

\* The cumulative fields and balances of d are all zero.
AllZero(d) ==
    /\ d.totalDeposited = 0 /\ d.totalWithdrawn = 0
    /\ d.availableBalance = 0 /\ d.lockedBalance = 0
    /\ d.totalProfits = 0 /\ d.totalLosses = 0 /\ d.netProfitLoss = 0

\* The step of p that creates the Balance Record of strategy s for user u.
CreatesZeroRecord(p, s, u) ==
    /\ op'[p].err = "none"
    /\ op'[p].ret \notin treasuries
    /\ treasuries' = treasuries \cup {op'[p].ret}
    /\ op'[p].ret.strategyId = s
    /\ op'[p].ret.userId = u
    /\ AllZero(op'[p].ret)

\* The ownership check of an initialize that found no Balance Record: on
\* to the creation exactly when the strategy exists and belongs to the
\* caller, OwnershipMismatch otherwise; nothing is written.
OwnershipChecked(p) ==
    /\ pc[p] = "idle" /\ pc'[p] \in {"initDone", "initCreate"}
    /\ DocsOf(treasuries, op'[p].strategyId) = {}
    => /\ UNCHANGED <<treasuries, transactions>>
       /\ pc'[p] = "initCreate" <=> StrategyExists(op'[p].strategyId, op'[p].userId)
       /\ pc'[p] = "initDone" => op'[p].err = "OwnershipMismatch"

\* C13 (as claimed): initialize for a strategy without a Balance Record
\* creates one with all cumulative fields and balances zero exactly when
\* the strategy exists and belongs to ownerId; otherwise it fails with
\* OwnershipMismatch and creates nothing.
C13_CreatesExactlyWhenOwned ==
    [][\A p \in PROCS :
         /\ OwnershipChecked(p)
         /\ (pc[p] = "initCreate" /\ pc'[p] = "initDone" =>
               /\ CreatesZeroRecord(p, op[p].strategyId, op[p].userId)
               /\ UNCHANGED transactions)]_vars

\* C13 (amended): initialize for a strategy without a Balance Record fails
\* with OwnershipMismatch, creating nothing, exactly when the strategy does
\* not exist or does not belong to ownerId.  Otherwise it creates the
\* record, all cumulative fields and balances zero, provided the contract
\* address is well-formed and no other call created the strategy's record
\* in between; with a malformed address it fails with ValidationError, with
\* a record created in between it fails with DuplicateKey, and in both
\* cases it creates nothing.
C13_InitializeCreates ==
    [][\A p \in PROCS :
         /\ OwnershipChecked(p)
         /\ (pc[p] = "initCreate" /\ pc'[p] = "initDone" =>
               LET o == op[p]
               IN  /\ UNCHANGED transactions
                   /\ IF ~ValidAddress(o.contractAddress)
                      THEN /\ op'[p].err = "ValidationError"
                           /\ UNCHANGED treasuries
                      ELSE IF DocsOf(treasuries, o.strategyId) # {}
                      THEN /\ op'[p].err = "DuplicateKey"
                           /\ UNCHANGED treasuries
                      ELSE CreatesZeroRecord(p, o.strategyId, o.userId))]_vars

\* Two initialize calls of the owner raced: one created the record, the
\* other met it at its insert.
C13_Witness ==
    \E p \in PROCS, q \in PROCS :
        /\ pc[p] = "initDone" /\ op[p].err = "none"
        /\ op[p].ret \in treasuries /\ AllZero(op[p].ret)
        /\ pc[q] = "initDone" /\ op[q].err = "DuplicateKey"
        /\ transactions = <<>>

\* C14: in every reachable state there is at most one Balance Record per
\* strategyId, also when initialize calls and first deposits for the same
\* strategy run concurrently.
C14_OneRecordPerStrategy ==
    \A s \in STRATS : Cardinality(DocsOf(treasuries, s)) <= 1

\* An initialize and a first deposit raced for the same strategy: the
\* deposit created and funded the record, the initialize met it at its
\* insert.
C14_Witness ==
    \E p \in PROCS :
        /\ pc[p] = "initDone" /\ op[p].err = "DuplicateKey"
        /\ Len(transactions) = 1
        /\ transactions[1].type = "DEPOSIT"
        /\ transactions[1].strategyId = op[p].strategyId
        /\ Cardinality(DocsOf(treasuries, op[p].strategyId)) = 1

\* C15 (as claimed): every Transaction Record committed by adjustBalance
\* has status COMPLETED, the requested kind, and an amount equal to the
\* signed change applied to availableBalance (balanceAfter - balanceBefore):
\* negative for LOSS and TRADE_OPEN, positive for PROFIT, REFUND and
\* TRADE_CLOSE.
C15_AdjustRecordsSignedEffect ==
    [][\A p \in PROCS : Commits(p) /\ op[p].fn = "adjustBalance" =>
         LET r == transactions'[Len(transactions')]
         IN  /\ Len(transactions') = Len(transactions) + 1
             /\ r.status = "COMPLETED"
             /\ r.type = op[p].type
             /\ r.amount = r.balanceAfter - r.balanceBefore
             /\ (r.type \in {"LOSS", "TRADE_OPEN"} => r.amount < 0)
             /\ (r.type \in {"PROFIT", "REFUND", "TRADE_CLOSE"} => r.amount > 0)]_vars

\* C16: every successful withdraw of amount a records one WITHDRAW
\* Transaction Record with amount = -a, COMPLETED if a txHash was supplied
\* and PENDING otherwise, and sets lastWithdrawTxHash only when the txHash
\* was supplied.
C16_WithdrawRecord ==
    [][\A p \in PROCS : Commits(p) /\ op[p].fn = "withdraw" =>
         LET r == transactions'[Len(transactions')]
             s == op[p].strategyId
             h == op[p].txHash
         IN  /\ Len(transactions') = Len(transactions) + 1
             /\ r.type = "WITHDRAW"
             /\ r.amount < 0
             /\ r.status = (IF h # NoHash THEN "COMPLETED" ELSE "PENDING")
             /\ \A d \in DocsOf(treasuries, s) : \E e \in DocsOf(treasuries', s) :
                  /\ e.totalWithdrawn = d.totalWithdrawn - r.amount
                  /\ e.availableBalance = d.availableBalance + r.amount
                  /\ e.lastWithdrawTxHash =
                       (IF h # NoHash THEN h ELSE d.lastWithdrawTxHash)]_vars

\* A withdrawal requested without a txHash: recorded PENDING, the balance
\* lowered, lastWithdrawTxHash still unset.
C16_Witness ==
    /\ Len(transactions) >= 2
    /\ LET r == transactions[Len(transactions)]
       IN  /\ r.type = "WITHDRAW" /\ r.status = "PENDING" /\ r.amount = 0 - 1
           /\ \E d \in DocsOf(treasuries, r.strategyId) :
                /\ d.lastWithdrawTxHash = NoHash
                /\ d.totalWithdrawn = 1
                /\ d.availableBalance = r.balanceAfter

\* C17 (as claimed): getTransactionSummary of a strategy reports
\* totalDeposits, totalWithdrawals, totalProfits and totalLosses equal to
\* the sums of the strategy's successful deposits, withdrawals (with or
\* without txHash), PROFIT and LOSS adjustments, that is to the Balance
\* Record's totalDeposited, totalWithdrawn, totalProfits and totalLosses.
C17_SummaryMatchesTotals ==
    \A d \in treasuries :
       LET r == GetTransactionSummary(d.strategyId, NoUser)
       IN  /\ r.totalDeposits = d.totalDeposited
           /\ r.totalWithdrawals = d.totalWithdrawn
           /\ r.totalProfits = d.totalProfits
           /\ r.totalLosses = d.totalLosses

\* The call p made is rejected with InvalidAmount and nothing is written.
RejectedInvalidAmount(p) ==
    /\ pc'[p] = "abort"
    /\ op'[p].err = "InvalidAmount"
    /\ UNCHANGED <<treasuries, transactions>>

\* C18: deposit and withdraw fail with InvalidAmount for every amount <= 0
\* and adjustBalance for amount = 0 whatever the kind, whether or not the
\* strategy has a Balance Record (the check comes before the lookup), and a
\* rejected first deposit creates no Balance Record: a call that is not
\* rejected with InvalidAmount, nothing written, is no such call.
C18_InvalidAmountFirst ==
    [][\A p \in PROCS :
         /\ (pc[p] = "idle" /\ pc'[p] # "idle" /\ ~RejectedInvalidAmount(p) =>
               \A s \in {op'[p].strategyId}, u \in USERS :
                  /\ op'[p].fn = "deposit" =>
                       \A a \in {x \in Amounts : x <= 0}, h \in TxHashes,
                          c \in ContractAddresses :
                          ~Deposit(p, s, u, a, h, c)
                  /\ op'[p].fn = "withdraw" =>
                       \A a \in {x \in Amounts : x <= 0}, h \in TxHashes :
                          ~Withdraw(p, s, u, a, h)
                  /\ op'[p].fn = "adjustBalance" =>
                       \A t \in TransactionType, e \in Descriptions,
                          h \in TxHashes :
                          ~AdjustBalance(p, s, u, 0, t, e, h))
         /\ (pc[p] = "abort" /\ op[p].err = "InvalidAmount" =>
               UNCHANGED <<treasuries, transactions>>)]_vars

\* A withdraw with a non-positive amount on a strategy that has no Balance
\* Record, rejected for its amount.
C18_Witness ==
    \E p \in PROCS :
        /\ pc[p] = "abort"
        /\ op[p].fn = "withdraw"
        /\ op[p].err = "InvalidAmount"
        /\ treasuries = {}

\* C19: adjustBalance TRADE_OPEN with amount a on the caller's Balance
\* Record fails with InsufficientFunds, nothing written, whenever
\* availableBalance < a; otherwise the call goes on and its commit lowers
\* availableBalance by a and raises lockedBalance by a, every other field
\* and availableBalance + lockedBalance unchanged.
C19_TradeOpenLocks ==
    [][\A p \in PROCS :
         /\ (pc[p] = "idle" /\ pc'[p] # "idle" /\ op'[p].fn = "adjustBalance" =>
               \A d \in DocsOf(treasuries, op'[p].strategyId), a \in Amounts,
                  e \in Descriptions, h \in TxHashes :
                  a > 0 /\ AdjustBalance(p, d.strategyId, d.userId, a,
                                         "TRADE_OPEN", e, h)
                  => IF d.availableBalance < a
                     THEN /\ pc'[p] = "abort"
                          /\ op'[p].err = "InsufficientFunds"
                          /\ UNCHANGED <<treasuries, transactions>>
                     ELSE pc'[p] = "save")
         /\ (Commits(p) /\ op[p].fn = "adjustBalance"
                        /\ op[p].type = "TRADE_OPEN" /\ op[p].amount > 0 =>
               \A d \in DocsOf(treasuries, op[p].strategyId) :
                  /\ d.availableBalance >= op[p].amount
                  /\ \E e \in DocsOf(treasuries', op[p].strategyId) :
                       /\ e = [d EXCEPT
                                 !.availableBalance = @ - op[p].amount,
                                 !.lockedBalance = @ + op[p].amount]
                       /\ e.availableBalance + e.lockedBalance =
                            d.availableBalance + d.lockedBalance)]_vars

\* A TRADE_OPEN locked the whole balance and the next one is rejected.
C19_Witness ==
    \E p \in PROCS :
        /\ pc[p] = "abort"
        /\ op[p].fn = "adjustBalance"
        /\ op[p].err = "InsufficientFunds"
        /\ Len(transactions) >= 2
        /\ transactions[Len(transactions)].type = "TRADE_OPEN"
        /\ \E d \in treasuries : d.availableBalance = 0 /\ d.lockedBalance > 0

\* What a Transaction Record says of the operation it records.
Entry(r) ==
    [strategyId |-> r.strategyId, type |-> r.type, amount |-> r.amount,
     balanceBefore |-> r.balanceBefore, balanceAfter |-> r.balanceAfter]

\* C20: Transaction Records are append-only: in every step each committed
\* record stays in the log with the same kind, amount, balanceBefore and
\* balanceAfter, so the log of every strategy only ever grows.
C20_AppendOnly ==
    [][/\ Len(transactions') >= Len(transactions)
       /\ \A i \in 1..Len(transactions) :
            Entry(transactions'[i]) = Entry(transactions[i])]_vars

\* A log of three records of different kinds, the deposit still first.
C20_Witness ==
    /\ Len(transactions) = 3
    /\ transactions[1].type = "DEPOSIT"
    /\ transactions[2].type = "WITHDRAW"
    /\ transactions[3].type = "ADJUSTMENT"

\* The Transaction Records of strategy s, in commit order.
LogOf(log, s) == SelectSeq(log, LAMBDA r : r.strategyId = s)

\* C21: operations on different strategies are independent: a step changes
\* the Balance Record or the Transaction Records of a strategy only when it
\* is the commit or the record creation of a call on that strategy, and a
\* call fails on a conflict (WriteConflict, DuplicateKey) only against a
\* call on its own strategy -- one holding an uncommitted write on it or
\* one that committed on it after the failing call began.
C21_StrategiesIndependent ==
    [][/\ \A t \in STRATS :
            \/ DocsOf(treasuries', t) # DocsOf(treasuries, t)
            \/ LogOf(transactions', t) # LogOf(transactions, t)
            => \E p \in PROCS :
                  /\ pc[p] \in {"commit", "initCreate"} /\ pc'[p] # pc[p]
                  /\ op[p].strategyId = t
       /\ \A p \in PROCS :
            /\ (p \in stale' \ stale =>
                  \E q \in PROCS \ {p} :
                     /\ pc[q] \in {"commit", "initCreate"} /\ pc'[q] # pc[q]
                     /\ op[q].strategyId = op[p].strategyId)
            /\ (/\ pc'[p] # pc[p]
                /\ pc'[p] \in {"abort", "initDone"}
                /\ op'[p].err \in {"WriteConflict", "DuplicateKey"}
                => \/ p \in stale
                   \/ /\ pc[p] \in {"create", "initCreate"}
                      /\ DocsOf(treasuries, op[p].strategyId) # {}
                   \/ \E q \in PROCS \ {p} :
                         /\ InTxn(q) /\ (op[q].wrote \/ op[q].created)
                         /\ op[q].strategyId = op[p].strategyId)]_vars

\* Two calls on different strategies are both past their save, neither
\* committed yet and neither in conflict.
C21_Witness ==
    \E p \in PROCS, q \in PROCS :
        /\ op[p].fn = "deposit" /\ pc[p] = "commit" /\ op[p].strategyId = "s1"
        /\ op[q].fn = "deposit" /\ pc[q] = "commit" /\ op[q].strategyId = "s2"
        /\ p \notin stale /\ q \notin stale
        /\ Len(transactions) = 1

\* What the four reads return for strategy s, with and without the user.
Reads(s) ==
    [balance |-> [u \in USERS \cup {NoUser} |-> GetBalance(s, u)],
     sufficient |-> [a \in Amounts |-> ValidateSufficientBalance(s, a)],
     history |-> [u \in USERS \cup {NoUser} |-> GetTransactionHistory(s, u)],
     summary |-> [u \in USERS \cup {NoUser} |-> GetTransactionSummary(s, u)]]

\* C22: reads see committed state only: what getBalance,
\* validateSufficientBalance, getTransactionHistory and
\* getTransactionSummary return for a strategy changes only at the commit
\* of a call on that strategy (or at the record creation of initialize),
\* never at the save or the insert of a call still in flight nor at an
\* abort, and while a call holds its saved document uncommitted the reads
\* return the document and the balance the call started from.
C22_ReadsSeeCommitted ==
    /\ [][\A s \in STRATS :
            /\ <<treasuries, transactions>>' # <<treasuries, transactions>>
            /\ Reads(s)' # Reads(s)
            =>
               \E p \in PROCS :
                  /\ pc[p] \in {"commit", "initCreate"}
                  /\ pc'[p] \in {"idle", "initDone"}
                  /\ op[p].strategyId = s]_vars
    /\ [](\A p \in PROCS, u \in USERS \cup {NoUser} :
            pc[p] \in {"insert", "commit"} =>
               /\ op[p].doc \notin GetBalance(op[p].strategyId, u)
               /\ IF op[p].created
                  THEN /\ GetBalance(op[p].strategyId, u) = {NoDoc}
                       /\ ~ValidateSufficientBalance(op[p].strategyId, 0)
                  ELSE /\ ValidateSufficientBalance(op[p].strategyId,
                                                    op[p].balanceBefore)
                       /\ ~ValidateSufficientBalance(op[p].strategyId,
                                                     op[p].balanceBefore + 1))

\* A deposit has saved its update and is not committed, an earlier deposit
\* is: the reads return the earlier balance.
C22_Witness ==
    \E p \in PROCS :
        /\ pc[p] = "commit" /\ op[p].fn = "deposit" /\ op[p].wrote
        /\ op[p].doc.availableBalance = 2
        /\ \A d \in GetBalance(op[p].strategyId, NoUser) : d.availableBalance = 1
        /\ ValidateSufficientBalance(op[p].strategyId, 1)
        /\ GetTransactionHistory(op[p].strategyId, NoUser).total = 1

\* The fields in which the Balance Records d and e differ.
ChangedFields(d, e) == {f \in DOMAIN d : d[f] # e[f]}

\* The fields the definition of the call o lists.
ListedFields(o) ==
    CASE o.fn = "deposit" ->
           {"totalDeposited", "availableBalance", "lastDepositTxHash"}
      [] o.fn = "withdraw" ->
           {"totalWithdrawn", "availableBalance"}
           \cup (IF o.txHash # NoHash THEN {"lastWithdrawTxHash"} ELSE {})
      [] o.type \in {"TRADE_OPEN", "TRADE_CLOSE"} ->
           {"availableBalance", "lockedBalance"}
      [] o.type = "PROFIT" ->
           {"totalProfits", "netProfitLoss", "availableBalance"}
      [] o.type = "LOSS" ->
           {"totalLosses", "netProfitLoss", "availableBalance"}
      [] OTHER -> {"availableBalance"}

\* C23: each committed operation changes only the Balance Record fields
\* its definition lists (for a first deposit, against the record just
\* created with every amount zero) and no other Balance Record.
C23_FrameOfEachOperation ==
    [][\A p \in PROCS : Commits(p) =>
         LET o == op[p]
             cur == DocsOf(treasuries, o.strategyId)
             base == IF o.created
                     THEN NewTreasury(NextId, o.strategyId, o.userId,
                                      o.doc.contractAddress)
                     ELSE CHOOSE d \in cur : d._id = o.doc._id
         IN  /\ o.created <=> cur = {}
             /\ \E e \in treasuries' :
                  /\ treasuries' = (treasuries \ cur) \cup {e}
                  /\ ChangedFields(base, e) \subseteq ListedFields(o)
                  /\ "availableBalance" \in ChangedFields(base, e)]_vars

\* initialize, then a REFUND: availableBalance alone has changed.
C23_Witness ==
    /\ Len(transactions) = 1
    /\ transactions[1].type = "REFUND"
    /\ \E d \in treasuries :
         /\ d.availableBalance = 1
         /\ AllZero([d EXCEPT !.availableBalance = 0])

\* p's call is an adjustBalance of the given kind with a positive amount.
Adjusting(p, type) ==
    op[p].fn = "adjustBalance" /\ op[p].type = type /\ op[p].amount > 0

\* The commit of p adds a to the field total and moves availableBalance and
\* lockedBalance by da and dl.
CommitMoves(p, total, a, da, dl) ==
    \A d \in DocsOf(treasuries, op[p].strategyId) :
       \E e \in DocsOf(treasuries', op[p].strategyId) :
          /\ e[total] = d[total] + a
          /\ e.availableBalance = d.availableBalance + da
          /\ e.lockedBalance = d.lockedBalance + dl

\* C24 (as claimed): adjustBalance LOSS applies no floor check: for every
\* amount a > 0, including a > availableBalance, its save is accepted and
\* it commits totalLosses increased by a and availableBalance decreased by
\* a, negative when the loss exceeds the available funds.
C24_LossCommitsBelowZero ==
    [][\A p \in PROCS :
         /\ (pc[p] = "save" /\ pc'[p] # "save" /\ Adjusting(p, "LOSS") =>
               pc'[p] = "insert")
         /\ (Commits(p) /\ Adjusting(p, "LOSS") =>
               CommitMoves(p, "totalLosses", op[p].amount,
                           0 - op[p].amount, 0))]_vars

\* C24 (amended): the handler applies no floor check to a LOSS -- for
\* every amount a > 0 the call on the caller's Balance Record goes on to
\* the save -- but the save is accepted only when a <= availableBalance:
\* then the LOSS commits totalLosses increased by a and availableBalance
\* decreased by a, not below zero; when a > availableBalance the schema
\* refuses the save with a validation error and nothing is written.
C24_LossRefusedBelowZero ==
    [][\A p \in PROCS :
         /\ (pc[p] = "idle" /\ pc'[p] # "idle" /\ op'[p].fn = "adjustBalance" =>
               \A d \in DocsOf(treasuries, op'[p].strategyId),
                  a \in {x \in Amounts : x > 0},
                  e \in Descriptions, h \in TxHashes :
                  AdjustBalance(p, d.strategyId, d.userId, a, "LOSS", e, h)
                  => pc'[p] = "save")
         /\ (pc[p] = "save" /\ pc'[p] # "save" /\ Adjusting(p, "LOSS") =>
               IF op[p].amount <= op[p].balanceBefore
               THEN pc'[p] = "insert"
               ELSE /\ pc'[p] = "abort"
                    /\ op'[p].err = "ValidationError"
                    /\ ~op'[p].wrote
                    /\ UNCHANGED <<treasuries, transactions>>)
         /\ (Commits(p) /\ Adjusting(p, "LOSS") =>
               /\ CommitMoves(p, "totalLosses", op[p].amount,
                              0 - op[p].amount, 0)
               /\ \A e \in DocsOf(treasuries', op[p].strategyId) :
                     e.availableBalance >= 0)]_vars

\* After a LOSS that emptied the balance, a second LOSS has passed the
\* handler and is at its save with a negative availableBalance.
C24_Witness ==
    \E p \in PROCS :
        /\ pc[p] = "save" /\ Adjusting(p, "LOSS")
        /\ op[p].doc.availableBalance < 0
        /\ \E d \in treasuries : d.totalLosses = 1 /\ d.availableBalance = 0

\* C25 (as claimed): adjustBalance TRADE_CLOSE does not validate its amount
\* against lockedBalance: a close of a > lockedBalance is accepted at save
\* too and commits lockedBalance - a, negative, and availableBalance + a.
C25_CloseCommitsBelowZero ==
    [][\A p \in PROCS :
         /\ (pc[p] = "save" /\ pc'[p] # "save" /\ Adjusting(p, "TRADE_CLOSE") =>
               pc'[p] = "insert")
         /\ (Commits(p) /\ Adjusting(p, "TRADE_CLOSE") =>
               CommitMoves(p, "totalProfits", 0, op[p].amount,
                           0 - op[p].amount))]_vars

\* C25 (amended): the handler does not validate the amount of a
\* TRADE_CLOSE against lockedBalance -- for every amount a > 0 the call on
\* the caller's Balance Record goes on to the save with lockedBalance - a
\* and availableBalance + a -- but the save is accepted only when
\* a <= lockedBalance, and then commits these values; when a >
\* lockedBalance the schema refuses the save with a validation error and
\* nothing is written.
C25_CloseRefusedBelowZero ==
    [][\A p \in PROCS :
         /\ (pc[p] = "idle" /\ pc'[p] # "idle" /\ op'[p].fn = "adjustBalance" =>
               \A d \in DocsOf(treasuries, op'[p].strategyId),
                  a \in {x \in Amounts : x > 0},
                  e \in Descriptions, h \in TxHashes :
                  AdjustBalance(p, d.strategyId, d.userId, a, "TRADE_CLOSE", e, h)
                  => /\ pc'[p] = "save"
                     /\ op'[p].doc.lockedBalance = d.lockedBalance - a
                     /\ op'[p].doc.availableBalance = d.availableBalance + a)
         /\ (pc[p] = "save" /\ pc'[p] # "save" /\ Adjusting(p, "TRADE_CLOSE") =>
               IF op[p].doc.lockedBalance >= 0
               THEN pc'[p] = "insert"
               ELSE /\ pc'[p] = "abort"
                    /\ op'[p].err = "ValidationError"
                    /\ ~op'[p].wrote
                    /\ UNCHANGED <<treasuries, transactions>>)
         /\ (Commits(p) /\ Adjusting(p, "TRADE_CLOSE") =>
               /\ CommitMoves(p, "totalProfits", 0, op[p].amount,
                              0 - op[p].amount)
               /\ \A e \in DocsOf(treasuries', op[p].strategyId) :
                     e.lockedBalance >= 0)]_vars

\* A TRADE_CLOSE of more than is locked has passed the handler and is at
\* its save with a negative lockedBalance.
C25_Witness ==
    \E p \in PROCS :
        /\ pc[p] = "save" /\ Adjusting(p, "TRADE_CLOSE")
        /\ op[p].doc.lockedBalance < 0
        /\ op[p].doc.availableBalance > 0
        /\ treasuries # {}

\* C26: adjustBalance ADJUSTMENT on the caller's Balance Record adds the
\* signed amount to availableBalance; the call fails with NegativeBalance,
\* nothing written, exactly when availableBalance + amount < 0; and for
\* every other kind a negative amount has the effect of its magnitude, so
\* ADJUSTMENT alone lowers availableBalance by a negative amount.
C26_SignedAdjustment ==
    [][\A p \in PROCS :
         /\ (pc[p] = "idle" /\ pc'[p] # "idle" /\ op'[p].fn = "adjustBalance" =>
               \A d \in DocsOf(treasuries, op'[p].strategyId),
                  a \in Amounts \ {0}, e \in Descriptions, h \in TxHashes :
                  AdjustBalance(p, d.strategyId, d.userId, a, "ADJUSTMENT", e, h)
                  => IF d.availableBalance + a < 0
                     THEN /\ pc'[p] = "abort"
                          /\ op'[p].err = "NegativeBalance"
                          /\ UNCHANGED <<treasuries, transactions>>
                     ELSE /\ pc'[p] = "save"
                          /\ op'[p].doc =
                               [d EXCEPT !.availableBalance = @ + a])
         /\ (pc'[p] = "abort" /\ pc[p] # "abort"
                /\ op'[p].err = "NegativeBalance" =>
               /\ pc[p] = "idle"
               /\ \E d \in DocsOf(treasuries, op'[p].strategyId) :
                     \E a \in Amounts : d.availableBalance + a < 0)
         /\ (Commits(p) /\ op[p].fn = "adjustBalance" =>
               \A d \in DocsOf(treasuries, op[p].strategyId) :
                  \E e \in DocsOf(treasuries', op[p].strategyId) :
                     IF op[p].type = "ADJUSTMENT"
                     THEN e = [d EXCEPT !.availableBalance = @ + op[p].amount]
                     ELSE /\ e = AdjustUpdate(d, op[p].type, Abs(op[p].amount))
                          /\ (op[p].amount < 0 /\ op[p].type # "ADJUSTMENT"
                                /\ e.availableBalance < d.availableBalance =>
                                op[p].type \in {"TRADE_OPEN", "LOSS"}))]_vars

\* A negative ADJUSTMENT was committed and the next one, which would go
\* below zero, is rejected.
C26_Witness ==
    \E p \in PROCS :
        /\ pc[p] = "abort" /\ op[p].fn = "adjustBalance"
        /\ op[p].err = "NegativeBalance"
        /\ Len(transactions) >= 2
        /\ LET r == transactions[Len(transactions)]
           IN  /\ r.type = "ADJUSTMENT" /\ r.amount = 0 - 1
               /\ r.balanceAfter = 0 /\ r.balanceBefore = 1

\* Every committed operation on strategy s was a deposit, a withdraw or an
\* adjustBalance of kind TRADE_OPEN, TRADE_CLOSE, PROFIT or LOSS.
OnlyConserving(s) ==
    \A i \in 1..Len(transactions) :
        transactions[i].strategyId = s =>
           transactions[i].type \notin {"REFUND", "ADJUSTMENT"}

C28_AuditChain ==
    \A s \in STRATS :
       LET log == LogOf(transactions, s)
       IN  /\ log # <<>> =>
                /\ log[1].balanceBefore = 0
                /\ DocsOf(treasuries, s) # {}
                /\ \A d \in DocsOf(treasuries, s) :
                      d.availableBalance = log[Len(log)].balanceAfter
           /\ \A i \in 2..Len(log) :
                log[i].balanceBefore = log[i - 1].balanceAfter

\* Two TRADE_OPEN calls read the same balance; one committed, the other
\* was aborted at its save, and the chain of the two records is whole.
C28_Witness ==
    \E p \in PROCS :
        /\ pc[p] = "abort" /\ op[p].fn = "adjustBalance"
        /\ op[p].err = "WriteConflict"
        /\ Len(LogOf(transactions, "s1")) = 2
        /\ transactions[2].type = "TRADE_OPEN"
        /\ transactions[2].balanceBefore = transactions[1].balanceAfter
        /\ AvailableOf(treasuries, "s1") = transactions[2].balanceAfter

\* C29 (as claimed): every Balance Record's userId is the owner of its
\* strategy: neither initialize nor the first deposit creates a Balance
\* Record for a strategy that does not exist or belongs to another user.
C29_RecordOwnerOwnsStrategy ==
    \A d \in treasuries : StrategyExists(d.strategyId, d.userId)

\* C30: no step changes the status of a committed Transaction Record -- a
\* withdrawal recorded PENDING, its amount already taken from
\* availableBalance, stays PENDING -- and no Transaction Record has
\* status FAILED or REVERSED.
C30_StatusNeverChanges ==
    /\ [][\A i \in 1..Len(transactions) :
            /\ i <= Len(transactions')
            /\ transactions'[i].status = transactions[i].status]_vars
    /\ [](\A i \in 1..Len(transactions) :
            /\ transactions[i].status \in {"PENDING", "COMPLETED"}
            /\ transactions[i].status = "PENDING" =>
                 /\ transactions[i].type = "WITHDRAW"
                 /\ transactions[i].amount < 0
                 /\ transactions[i].balanceAfter =
                      transactions[i].balanceBefore + transactions[i].amount)

\* A withdrawal was recorded PENDING and a deposit committed after it.
C30_Witness ==
    /\ Len(transactions) = 3
    /\ transactions[2].type = "WITHDRAW"
    /\ transactions[2].status = "PENDING"
    /\ transactions[3].type = "DEPOSIT"
    /\ \E d \in treasuries : d.totalWithdrawn = 1 /\ d.availableBalance = 1

====
